---- MODULE Spec2Model ----
(***************************************************************************)
(* A model of the contact-details application: the contact store           *)
(* (ContactsService), the contact detail view (ContactDetailsComponent),   *)
(* the folder card with its add flow (FolderCardComponent), the HTTP       *)
(* interceptor chain (cacheInterceptor in front of mockApiInterceptor),    *)
(* the cached provider streams (shareReplay), the folder order of          *)
(* SchemaService.getFoldersWithOrder, the field filter of the folder card, *)
(* the field row (FieldRowComponent) with its isEmpty, mockApiInterceptor  *)
(* over all its endpoints, the layout switcher of AppComponent and the     *)
(* activity panels over the records of ActivitiesService.                  *)
(*                                                                         *)
(* Contact records are JavaScript objects: the model keeps them in a heap  *)
(* (a sequence of field maps) and lists hold references (heap indices), so *)
(* that in-place writes and list replacement are told apart.               *)
(***************************************************************************)
EXTENDS Integers, Sequences, FiniteSets, TLC

\* ------------------------------------------------------------------ bounds

\* how many times save() may submit a draft to ContactsService.add
MaxAdds == 2
\* the longest contact list GET /api/contacts delivers
MaxServer == 1
\* the longest folder list of the schema
MaxFolders == 3
\* the longest folderOrder of a layout
MaxOrder == 2
\* the longest filter text typed into the field filter
MaxFilter == 2
\* the most fields a folder of the schema has
MaxFields == 2
\* the longest list a multi-select value grows to
MaxSelected == 2
\* the most layouts layouts.json holds
MaxLayouts == 3
\* the longest list an activity provider delivers
MaxRecords == 2

\* ---------------------------------------------------------------- variables

VARIABLES
    \* ---- heap of contact objects (server records, submitted drafts)
    heap,
    \* ---- ContactsService
    state,          \* state$ : BehaviorSubject<Contact[] | null>
    initStatus,     \* init(): "pending" | "loaded" | "failed"
    calls,          \* add() calls: <<[body, status]>>, status pending/resolved/rejected
    received,       \* what the subscriber of contacts$ was called with last
    emits,          \* number of state$.next() calls so far
    \* ---- ContactDetailsComponent
    idx, total, current,
    \* ---- FolderCardComponent
    defaultOpen, open, isAdding, newContactData,
    fcIdx, fcTotal, fcCurrent,
    timers,         \* setTimeout callbacks of save() not yet run
    \* ---- the last operation and the state it started from
    last,
    \* ---- HTTP: cacheInterceptor in front of mockApiInterceptor
    CACHE,          \* Map<string, HttpResponse>: key -> response
    inflight,       \* requests that wait for the backend or for the mock's delay
    nreq,           \* requests started so far (the ids of inflight)
    dispatched,     \* per request (method, key): calls of next(req) by cacheInterceptor
    responded,      \* the keys a GET has produced a response for
    lastHttp,       \* the last HTTP step: the request it was about, its answer
    \* ---- a provider stream: http.get(...).pipe(shareReplay({bufferSize: 1,
    \*      refCount: false})), as LayoutService.cache$, SchemaService.cache$,
    \*      ActivitiesService.conversations$, notes$ and tasks$ all are
    connection,     \* the source subscription: "none" | "open" | "completed"
    buffer,         \* the ReplaySubject's buffer: <<>> or <<value>>
    subs,           \* subscribers now subscribed to the subject
    nsub,           \* subscriptions made so far (their ids)
    got,            \* per subscription: what it was notified of, in order
    late,           \* the subscriptions made when the value was available
    fetches,        \* times the stream subscribed to http.get (fetch dispatched)
    failures,       \* fetches that failed
    \* ---- SchemaService.getFoldersWithOrder: the last emission of its stream,
    \*      [called, layoutKey, layouts, folders, out]
    ordered,
    \* ---- FolderCardComponent, the inputs filteredFields() reads
    filter,         \* @Input() filter, a string as the sequence of its characters
    folder,         \* @Input() folder : FolderDef, Undefined before it is bound
    \* ---- FieldRowComponent
    fieldValue,     \* @Input() value: [kind, items], kind undefined/string/array
    isFieldEditing,
    originalValue,
    rowLast,        \* the last handler of the row: [op, before, editing, option,
                    \* checked, emitted]
    rowPrev,        \* the handler before it, if it checked an option:
                    \* [add, option, before]
    startValue,     \* the value the last startFieldEdit() found
    \* ---- mockApiInterceptor, on one request: [stage, req, passed, resp]
    mock,
    \* ---- AppComponent, the layout switcher
    activeKey,
    activeKeySubject,   \* activeKey$ : the value of the BehaviorSubject
    layoutCache,        \* LayoutService.cache$: [status, all]
    layoutEmitted,      \* layout$: what it emitted last, [emitted, layout]
    layoutKeysEmitted,  \* layoutKeys$: what it emitted last, [emitted, keys]
    lastKey,            \* the last onKeyChange(next): [changed, key]
    \* ---- the activity panels and the providers' cached streams
    activityHeap,       \* the Conversation, Note and Task objects
    activityBuffer,     \* per provider stream: [loaded, list], the list of
                        \* references its ReplaySubject holds and the panel
                        \* is given as [items]
    delivered,          \* the objects as their provider delivered them
    lastPanel,          \* the last operation of a panel: [op, kind, result]
    \* ---- FieldRowComponent.isEmpty: the last call, [called, type, v, result]
    emptyCall

contactVars == <<heap, state, initStatus, calls, received, emits,
                 idx, total, current, defaultOpen, open, isAdding,
                 newContactData, fcIdx, fcTotal, fcCurrent, timers, last>>

httpVars == <<CACHE, inflight, nreq, dispatched, responded, lastHttp>>

providerVars == <<connection, buffer, subs, nsub, got, late, fetches, failures>>

orderVars == <<ordered>>
filterVars == <<filter, folder>>
rowVars == <<fieldValue, isFieldEditing, originalValue, rowLast, rowPrev,
            startValue>>
mockVars == <<mock>>
switcherVars == <<activeKey, activeKeySubject, layoutCache, layoutEmitted,
                 layoutKeysEmitted, lastKey>>

activityVars == <<activityHeap, activityBuffer, delivered, lastPanel>>
emptyVars == <<emptyCall>>

\* the parts of the user interface that stand next to the store
viewVars == <<orderVars, filterVars, rowVars, mockVars, switcherVars,
              activityVars, emptyVars>>

\* what a specification of one part leaves alone
FrameContacts == UNCHANGED <<httpVars, providerVars, viewVars>>
FrameHttp == UNCHANGED <<contactVars, providerVars, viewVars>>
FrameProvider == UNCHANGED <<contactVars, httpVars, viewVars>>
FrameOrder == UNCHANGED <<contactVars, httpVars, providerVars,
                          filterVars, rowVars, mockVars, switcherVars,
        activityVars, emptyVars>>
FrameFilter == UNCHANGED <<contactVars, httpVars, providerVars,
                           orderVars, rowVars, mockVars, switcherVars,
        activityVars, emptyVars>>
FrameRow == UNCHANGED <<contactVars, httpVars, providerVars,
                        orderVars, filterVars, mockVars, switcherVars,
        activityVars, emptyVars>>
FrameMock == UNCHANGED <<contactVars, httpVars, providerVars,
                         orderVars, filterVars, rowVars, switcherVars,
        activityVars, emptyVars>>
FrameSwitcher == UNCHANGED <<contactVars, httpVars, providerVars,
                             orderVars, filterVars, rowVars, mockVars,
        activityVars, emptyVars>>
FrameActivities == UNCHANGED <<contactVars, httpVars, providerVars,
        orderVars, filterVars, rowVars, mockVars, switcherVars, emptyVars>>
FrameEmpty == UNCHANGED <<contactVars, httpVars, providerVars,
        orderVars, filterVars, rowVars, mockVars, switcherVars, activityVars>>

\* ------------------------------------------------------------------ helpers

\* Contact | null : the null reference
Null == 0

Min(a, b) == IF a < b THEN a ELSE b
Max(a, b) == IF a > b THEN a ELSE b

Range(s) == {s[i] : i \in 1..Len(s)}

\* new BehaviorSubject<Contact[] | null>(null)
NullState == [isNull |-> TRUE, list |-> <<>>]
ListState(l) == [isNull |-> FALSE, list |-> l]

\* list ?? []
OrEmpty(s) == IF s.isNull THEN <<>> ELSE s.list

\* arr[i] ?? null, for a JavaScript (0-based) index i
At(arr, i) == IF i >= 0 /\ i < Len(arr) THEN arr[i + 1] ELSE Null

\* newContactData = {}
EmptyObj == [k \in {} |-> ""]

\* the blank draft add() seeds
BlankDraft ==
    [firstName |-> "", lastName |-> "", phone |-> "", email |-> "",
     address |-> "", businessName |-> "", streetAddress |-> "", city |-> "",
     country |-> "", owner |-> "", followers |-> <<>>, tags |-> <<>>]

\* obj[key] = value
SetField(obj, key, value) ==
    [k \in (DOMAIN obj) \cup {key} |-> IF k = key THEN value ELSE obj[k]]

\* the keys and values the field rows emit changes for
FieldKeys == {"firstName"}
FieldValues == {"Ada"}

\* the records of ./assets/contactData.json, first n of them
ServerContact(i) ==
    [firstName |-> IF i = 1 THEN "Devon" ELSE "Jane",
     lastName |-> IF i = 1 THEN "Lane" ELSE "Doe"]
ServerList(n) == [i \in 1..n |-> ServerContact(i)]

\* the record of the last operation: its name, the index it started from and
\* the request body it was about (Null when it has none)
Op(name, body) == [op |-> name, idx |-> idx, body |-> body]

\* --------------------------------------------------------------------- Init

Init ==
    /\ heap = <<>>
    /\ state = NullState
    /\ initStatus = "pending"
    /\ calls = <<>>
    /\ received = NullState
    /\ emits = 0
    /\ idx = 0
    /\ total = 0
    /\ current = Null
    /\ defaultOpen = FALSE
    /\ open = FALSE
    /\ isAdding = FALSE
    /\ newContactData = EmptyObj
    /\ fcIdx = 0
    /\ fcTotal = 0
    /\ fcCurrent = Null
    /\ timers = 0
    /\ last = [op |-> "new", idx |-> 0, body |-> Null]
    /\ CACHE = <<>>
    /\ inflight = {}
    /\ nreq = 0
    /\ dispatched = <<>>
    /\ responded = {}
    /\ connection = "none"
    /\ buffer = <<>>
    /\ subs = {}
    /\ nsub = 0
    /\ got = <<>>
    /\ late = {}
    /\ fetches = 0
    /\ failures = 0
    /\ lastHttp = [op |-> "new", req |-> [method |-> "", url |-> <<>>, q |-> "", body |-> ""],
                   resp |-> [status |-> 0, body |-> ""]]
    /\ ordered = [called |-> FALSE, layoutKey |-> "", layouts |-> <<>>,
                  folders |-> <<>>, out |-> <<>>]
    /\ filter = <<>>
    /\ folder = [undefined |-> TRUE]
    /\ fieldValue = [kind |-> "undefined", items |-> <<>>]
    /\ isFieldEditing = FALSE
    /\ originalValue = [kind |-> "undefined", items |-> <<>>]
    /\ rowLast = [op |-> "new", before |-> [kind |-> "undefined", items |-> <<>>],
                  editing |-> FALSE, option |-> "", checked |-> FALSE,
                  emitted |-> [kind |-> "none", items |-> <<>>]]
    /\ rowPrev = [add |-> FALSE, option |-> "",
                  before |-> [kind |-> "undefined", items |-> <<>>]]
    /\ startValue = [kind |-> "undefined", items |-> <<>>]
    /\ mock = [stage |-> "idle",
               req |-> [method |-> "", url |-> <<>>, q |-> "", body |-> ""],
               passed |-> [method |-> "", url |-> <<>>, q |-> "", body |-> ""],
               resp |-> [status |-> 0, body |-> ""]]
    /\ activeKey = "default"
    /\ activeKeySubject = "default"
    /\ layoutCache = [status |-> "pending", all |-> <<>>]
    /\ layoutEmitted = [emitted |-> FALSE, layout |-> [undefined |-> TRUE]]
    /\ layoutKeysEmitted = [emitted |-> FALSE, keys |-> <<>>]
    /\ lastKey = [changed |-> FALSE, key |-> ""]
    /\ activityHeap = <<>>
    /\ activityBuffer = [k \in {"conversations", "notes", "tasks"} |->
                            [loaded |-> FALSE, list |-> <<>>]]
    /\ delivered = <<>>
    /\ lastPanel = [op |-> "new", kind |-> "", result |-> 0]
    /\ emptyCall = [called |-> FALSE, type |-> "", v |-> [kind |-> "undefined"],
                    result |-> FALSE]

\* ---------------------------------------------------------- ContactsService

\* the index the list subscription of ContactDetailsComponent leaves
ClampIdxUnclamped(i, n) == i
ClampIdx(i, n) == Min(i, Max(0, n - 1))

\* state$.next(v): the subject keeps v and calls its subscriber with it, the
\* one ContactDetailsComponent's constructor registered (the only subscribe()
\* of contacts$ in the source), which runs with list = v ?? []
StateNext(v) ==
    /\ state' = v
    /\ emits' = emits + 1
    /\ received' = v
    /\ total' = Len(OrEmpty(v))
    /\ idx' = ClampIdx(idx, Len(OrEmpty(v)))
    /\ current' = At(OrEmpty(v), ClampIdx(idx, Len(OrEmpty(v))))

\* init(): GET /api/contacts answered with n records; state$.next(res)
initLoaded ==
    /\ initStatus = "pending"
    /\ \E n \in 0..MaxServer :
         /\ heap' = heap \o ServerList(n)
         /\ StateNext(ListState([i \in 1..n |-> Len(heap) + i]))
    /\ initStatus' = "loaded"
    /\ last' = Op("initLoaded", Null)
    /\ UNCHANGED <<calls, defaultOpen, open, isAdding,
                   newContactData, fcIdx, fcTotal, fcCurrent, timers>>

\* init(): GET /api/contacts fails; firstValueFrom rejects and init() throws
initFailedEmpty ==
    /\ initStatus = "pending"
    /\ initStatus' = "failed"
    /\ StateNext(ListState(<<>>))
    /\ last' = Op("initFailed", Null)
    /\ UNCHANGED <<heap, calls, defaultOpen, open, isAdding, newContactData,
                   fcIdx, fcTotal, fcCurrent, timers>>
initFailed ==
    /\ initStatus = "pending"
    /\ initStatus' = "failed"
    /\ last' = Op("initFailed", Null)
    /\ UNCHANGED <<heap, state, calls, received, emits, idx, total,
                   current, defaultOpen, open, isAdding, newContactData,
                   fcIdx, fcTotal, fcCurrent, timers>>

\* mockApiInterceptor, POST /api/contacts: 201 with the request body echoed
PostContacts(body) == [status |-> 201, body |-> body]

\* [...curr, created]
SpreadReplaceLast(curr, created) ==
    IF curr = <<>> THEN <<created>>
    ELSE [curr EXCEPT ![Len(curr)] = created]
Spread(curr, created) == Append(curr, created)

\* add(contact), after the await: the POST answered; created is its body
addResolved ==
    /\ \E i \in 1..Len(calls) :
         /\ calls[i].status = "pending"
         /\ calls' = [calls EXCEPT ![i].status = "resolved"]
         /\ StateNext(ListState(Spread(OrEmpty(state),
                                       PostContacts(calls[i].body).body)))
         /\ last' = Op("addResolved", calls[i].body)
    /\ UNCHANGED <<heap, initStatus, defaultOpen, open, isAdding,
                   newContactData, fcIdx, fcTotal, fcCurrent, timers>>

\* add(contact): the POST fails; the await throws and add() rejects
addRejectedAfterAppend ==
    /\ \E i \in 1..Len(calls) :
         /\ calls[i].status = "pending"
         /\ calls' = [calls EXCEPT ![i].status = "rejected"]
         /\ StateNext(ListState(Spread(OrEmpty(state), calls[i].body)))
         /\ last' = Op("addRejected", calls[i].body)
    /\ UNCHANGED <<heap, initStatus, defaultOpen, open, isAdding,
                   newContactData, fcIdx, fcTotal, fcCurrent, timers>>
addRejected ==
    /\ \E i \in 1..Len(calls) :
         /\ calls[i].status = "pending"
         /\ calls' = [calls EXCEPT ![i].status = "rejected"]
         /\ last' = Op("addRejected", calls[i].body)
    /\ UNCHANGED <<heap, state, initStatus, received, emits, idx,
                   total, current, defaultOpen, open, isAdding, newContactData,
                   fcIdx, fcTotal, fcCurrent, timers>>

\* -------------------------------------------------- ContactDetailsComponent

\* the index prev() leaves
PrevIdx(i) == IF i > 0 THEN i - 1 ELSE i

\* the index next() leaves
NextIdxWrap(i, n) == IF i < n - 1 THEN i + 1 ELSE 0
NextIdx(i, n) == IF i < n - 1 THEN i + 1 ELSE i

\* syncCurrent(): current = (state$.value ?? [])[idx] ?? null
syncCurrentStale(i) == current
syncCurrent(i) == At(OrEmpty(state), i)

prev ==
    /\ idx' = PrevIdx(idx)
    /\ current' = IF idx > 0 THEN syncCurrent(PrevIdx(idx)) ELSE current
    /\ last' = Op("prev", Null)
    /\ UNCHANGED <<heap, state, initStatus, calls, received, emits,
                   total, defaultOpen, open, isAdding, newContactData, fcIdx,
                   fcTotal, fcCurrent, timers>>

next ==
    /\ idx' = NextIdx(idx, total)
    /\ current' = IF NextIdx(idx, total) # idx
                  THEN syncCurrent(NextIdx(idx, total)) ELSE current
    /\ last' = Op("next", Null)
    /\ UNCHANGED <<heap, state, initStatus, calls, received, emits,
                   total, defaultOpen, open, isAdding, newContactData, fcIdx,
                   fcTotal, fcCurrent, timers>>

\* ------------------------------------------------------ FolderCardComponent

\* [data]: the record the folder card is given, the current contact
data == current

\* ngOnChanges(changes) with changes['defaultOpen']
ngOnChanges ==
    /\ \E v \in BOOLEAN : defaultOpen' = v /\ open' = v
    /\ last' = Op("ngOnChanges", Null)
    /\ UNCHANGED <<heap, state, initStatus, calls, received, emits,
                   idx, total, current, isAdding, newContactData, fcIdx,
                   fcTotal, fcCurrent, timers>>

toggleOpenAlways ==
    /\ open' = ~open
    /\ last' = Op("toggleOpen", Null)
    /\ UNCHANGED <<heap, state, initStatus, calls, received, emits,
                   idx, total, current, defaultOpen, isAdding, newContactData,
                   fcIdx, fcTotal, fcCurrent, timers>>
toggleOpen ==
    /\ open' = IF ~isAdding THEN ~open ELSE open
    /\ last' = Op("toggleOpen", Null)
    /\ UNCHANGED <<heap, state, initStatus, calls, received, emits,
                   idx, total, current, defaultOpen, isAdding, newContactData,
                   fcIdx, fcTotal, fcCurrent, timers>>

add ==
    /\ isAdding' = TRUE
    /\ open' = TRUE
    /\ newContactData' = BlankDraft
    /\ last' = Op("add", Null)
    /\ UNCHANGED <<heap, state, initStatus, calls, received, emits,
                   idx, total, current, defaultOpen, fcIdx, fcTotal, fcCurrent,
                   timers>>

\* save(): in add mode the draft object goes to ContactsService.add (the
\* POST is sent, nothing is awaited), add mode is left, the draft is replaced
\* by {} and a timer is set.  The draft object becomes a heap object here: from
\* now on it is shared with the store.
save ==
    /\ IF isAdding
       THEN /\ Len(calls) < MaxAdds
            /\ heap' = Append(heap, newContactData)
            /\ calls' = Append(calls, [body |-> Len(heap) + 1,
                                       status |-> "pending"])
            /\ isAdding' = FALSE
            /\ newContactData' = EmptyObj
            /\ timers' = timers + 1
            /\ last' = Op("save", Len(heap) + 1)
       ELSE /\ last' = Op("save", Null)
            /\ UNCHANGED <<heap, calls, isAdding, newContactData, timers>>
    /\ UNCHANGED <<state, initStatus, received, emits, idx, total,
                   current, defaultOpen, open, fcIdx, fcTotal, fcCurrent>>

\* the setTimeout callback of save(): idx = total - 1; syncCurrent()
saveTimeout ==
    /\ timers > 0
    /\ timers' = timers - 1
    /\ fcIdx' = fcTotal - 1
    /\ fcCurrent' = syncCurrent(fcTotal - 1)
    /\ last' = Op("saveTimeout", Null)
    /\ UNCHANGED <<heap, state, initStatus, calls, received, emits,
                   idx, total, current, defaultOpen, open, isAdding,
                   newContactData, fcTotal>>

cancel ==
    /\ isAdding' = FALSE
    /\ newContactData' = EmptyObj
    /\ last' = Op("cancel", Null)
    /\ UNCHANGED <<heap, state, initStatus, calls, received, emits,
                   idx, total, current, defaultOpen, open, fcIdx, fcTotal,
                   fcCurrent, timers>>

\* onFieldValueChange(fieldKey, newValue)
onFieldValueChangeLive ==
    /\ \E key \in FieldKeys, value \in FieldValues :
         /\ heap' = IF data # Null
                    THEN [heap EXCEPT ![data] = SetField(@, key, value)]
                    ELSE heap
         /\ newContactData' = newContactData
    /\ last' = Op("onFieldValueChange", Null)
    /\ UNCHANGED <<state, initStatus, calls, received, emits, idx,
                   total, current, defaultOpen, open, isAdding, fcIdx, fcTotal,
                   fcCurrent, timers>>
onFieldValueChange ==
    /\ \E key \in FieldKeys, value \in FieldValues :
         IF isAdding
         THEN /\ newContactData' = SetField(newContactData, key, value)
              /\ heap' = heap
         ELSE /\ heap' = IF data # Null
                         THEN [heap EXCEPT ![data] = SetField(@, key, value)]
                         ELSE heap
              /\ newContactData' = newContactData
    /\ last' = Op("onFieldValueChange", Null)
    /\ UNCHANGED <<state, initStatus, calls, received, emits, idx,
                   total, current, defaultOpen, open, isAdding, fcIdx, fcTotal,
                   fcCurrent, timers>>

\* --------------------------------------------------------------------- HTTP
\* A URL is the sequence of its path segments: '/api/contacts' is
\* <<"api", "contacts">>, './assets/notes.json' is <<".", "assets", "notes.json">>.
\* A request is [method, url, q, body] with q the query string ("" for none).

\* requests the model sends may number up to
MaxRequests == 3

ApiContacts == <<"api", "contacts">>
ApiUnknown == <<"api", "unknown">>
AssetContacts == <<".", "assets", "contactData.json">>

Methods == {"GET", "POST"}
Urls == {ApiContacts, ApiUnknown, AssetContacts}
Queries == {"", "page=1"}

\* req.urlWithParams
urlWithParamsNoQuery(req) == <<req.url, "">>
urlWithParams(req) == <<req.url, req.q>>

\* req.url.startsWith('/api/')
IsApi(url) == Len(url) >= 2 /\ url[1] = "api"

\* the switch over req.url of the GET router: the asset file of an endpoint
HasAsset(url) ==
    url \in {<<"api", "layouts">>, <<"api", "schema">>, <<"api", "contacts">>,
             <<"api", "conversations">>, <<"api", "notes">>, <<"api", "tasks">>}
AssetOf(url) ==
    CASE url = <<"api", "layouts">> -> <<".", "assets", "layouts.json">>
      [] url = <<"api", "schema">> -> <<".", "assets", "contactField.json">>
      [] url = <<"api", "contacts">> -> <<".", "assets", "contactData.json">>
      [] url = <<"api", "conversations">> -> <<".", "assets", "conversations.json">>
      [] url = <<"api", "notes">> -> <<".", "assets", "notes.json">>
      [] url = <<"api", "tasks">> -> <<".", "assets", "tasks.json">>

\* what the backend serves for a file: its content, named after the file
FileData(url) == url[Len(url)]

\* new HttpResponse({ status, body })
HttpResponse(status, body) == [status |-> status, body |-> body]
NoResponse == [status |-> 0, body |-> ""]

\* the fallback of mockApiInterceptor
NotFound == HttpResponse(404, "API endpoint not found")

\* response.clone()
Clone(r) == [status |-> r.status, body |-> r.body]

\* event instanceof HttpResponse: true of every response a handler emits
\* (an error is no event but an error notification)
IsHttpResponse(event) == event # NoResponse

\* CACHE.get(key)
Cached(key) == key \in DOMAIN CACHE
CacheSet(cache, key, r) ==
    [k \in (DOMAIN cache) \cup {key} |-> IF k = key THEN Clone(r) ELSE cache[k]]

\* the tap of cacheInterceptor on a GET that went to next(req)
Tap(cache, req, event) ==
    IF req.method = "GET" /\ IsHttpResponse(event)
    THEN CacheSet(cache, urlWithParams(req), event)
    ELSE cache

\* the exact request path plus query string, as the history variables
\* dispatched and responded file a request
RequestKey(req) == <<req.url, req.q>>
DKey(req) == <<req.method, RequestKey(req)>>
Count(d, k) == IF k \in DOMAIN d THEN d[k] ELSE 0
Incr(d, k) == [x \in (DOMAIN d) \cup {k} |-> IF x = k THEN Count(d, k) + 1 ELSE d[x]]

Request(method, url, q, body) ==
    [method |-> method, url |-> url, q |-> q, body |-> body]

\* the request the mock makes for an endpoint's file: http.get(asset)
AssetRequest(req) == Request("GET", AssetOf(req.url), "", "")

Entry(id, req, stage, resp, parent) ==
    [id |-> id, req |-> req, stage |-> stage, resp |-> resp, parent |-> parent]

HttpOp(name, req, resp) == [op |-> name, req |-> req, resp |-> resp]

\* mockApiInterceptor answers by itself (after LAG) everything under /api/
\* except the GET endpoints, whose file it has to fetch first
MockAnswerEcho(req) == PostContacts(req.body)
MockAnswer(req) ==
    IF req.method = "POST" /\ req.url = ApiContacts
    THEN PostContacts(req.body)
    ELSE NotFound

\* http.<method>(url): the request runs through cacheInterceptor and, unless
\* the cache answers, through mockApiInterceptor, up to the first wait
httpRequest ==
    /\ nreq < MaxRequests
    /\ \E method \in Methods, url \in Urls, q \in Queries :
         LET req == Request(method, url, q, IF method = "POST" THEN "draft" ELSE "")
             id == nreq + 1
             areq == AssetRequest(req)
         IN
         /\ nreq' = id
         /\ IF method = "GET" /\ Cached(urlWithParams(req))
            THEN \* return of(cached.clone())
                 /\ lastHttp' = HttpOp("request", req, Clone(CACHE[urlWithParams(req)]))
                 /\ UNCHANGED <<inflight, dispatched>>
            ELSE \* next(req): mockApiInterceptor
                 /\ lastHttp' = HttpOp("request", req, NoResponse)
                 /\ IF ~IsApi(url)
                    THEN \* next(req): the backend
                         /\ inflight' = inflight \cup
                                {Entry(id, req, "backend", NoResponse, 0)}
                         /\ dispatched' = Incr(dispatched, DKey(req))
                    ELSE IF method = "GET" /\ HasAsset(url)
                    THEN \* from(http.get(asset)): a request of its own
                         IF Cached(urlWithParams(areq))
                         THEN /\ inflight' = inflight \cup
                                    {Entry(id, req, "lag",
                                           HttpResponse(200, Clone(CACHE[urlWithParams(areq)]).body), 0)}
                              /\ dispatched' = Incr(dispatched, DKey(req))
                         ELSE /\ inflight' = inflight \cup
                                    {Entry(id, req, "asset", NoResponse, 0),
                                     Entry(-id, areq, "backend", NoResponse, id)}
                              /\ dispatched' = Incr(Incr(dispatched, DKey(req)), DKey(areq))
                    ELSE /\ inflight' = inflight \cup
                                {Entry(id, req, "lag", MockAnswer(req), 0)}
                         /\ dispatched' = Incr(dispatched, DKey(req))
    /\ UNCHANGED <<CACHE, responded>>

\* delay(LAG) elapses: the mock's response reaches cacheInterceptor's tap and
\* then the caller
lagElapsed ==
    /\ \E e \in inflight :
         /\ e.stage = "lag"
         /\ inflight' = inflight \ {e}
         /\ CACHE' = Tap(CACHE, e.req, e.resp)
         /\ responded' = IF e.req.method = "GET"
                         THEN responded \cup {RequestKey(e.req)} ELSE responded
         /\ lastHttp' = HttpOp("response", e.req, e.resp)
    /\ UNCHANGED <<nreq, dispatched>>

\* the backend answers a request for a file: the response passes the tap; a
\* mock waiting for the file maps it to its 200 response and starts its delay
backendResponds ==
    /\ \E e \in inflight :
         /\ e.stage = "backend"
         /\ LET r == HttpResponse(200, FileData(e.req.url)) IN
            /\ CACHE' = Tap(CACHE, e.req, r)
            /\ responded' = IF e.req.method = "GET"
                            THEN responded \cup {RequestKey(e.req)} ELSE responded
            /\ inflight' = {IF p.id = e.parent
                            THEN Entry(p.id, p.req, "lag", HttpResponse(200, r.body), 0)
                            ELSE p : p \in inflight \ {e}}
            /\ lastHttp' = HttpOp("response", e.req, r)
    /\ UNCHANGED <<nreq, dispatched>>

\* the backend fails: an error notification, which the tap does not see and
\* which ends the mock's pipe for the endpoint as well
backendFails ==
    /\ \E e \in inflight :
         /\ e.stage = "backend"
         /\ inflight' = {p \in inflight \ {e} : p.id # e.parent}
         /\ lastHttp' = HttpOp("error", e.req, NoResponse)
    /\ UNCHANGED <<CACHE, nreq, dispatched, responded>>

NextHttp ==
    \/ httpRequest /\ FrameHttp
    \/ lagElapsed /\ FrameHttp
    \/ backendResponds /\ FrameHttp
    \/ backendFails /\ FrameHttp

\* ---------------------------------------------------------- provider stream
\* shareReplay({ bufferSize: 1, refCount: false }) is share() with a
\* ReplaySubject(1) as connector, resetOnError: true, resetOnComplete: false and
\* resetOnRefCountZero: refCount.  The source, http.get, emits its one value and
\* completes, or fails.

\* subscriptions the model makes may number up to
MaxSubscribers == 4

\* refCount: false
RefCountTrue == TRUE
RefCount == FALSE

\* the body the n-th fetch delivers
Fetched(n) == n

Notify(g, ids, events) ==
    [i \in DOMAIN g |-> IF i \in ids THEN g[i] \o events ELSE g[i]]

\* cache$.subscribe(...): the subscriber joins the subject (which replays its
\* buffer, and its completion when it has completed); the first subscriber,
\* and the first after a reset, connects the subject to http.get
pSubscribe ==
    /\ nsub < MaxSubscribers
    /\ nsub' = nsub + 1
    /\ IF connection = "completed"
       THEN /\ got' = Append(got, buffer \o <<"complete">>)
            /\ late' = late \cup {nsub + 1}
            /\ UNCHANGED <<connection, subs, fetches>>
       ELSE /\ got' = Append(got, buffer)
            /\ subs' = subs \cup {nsub + 1}
            /\ late' = late
            /\ IF connection = "none"
               THEN connection' = "open" /\ fetches' = fetches + 1
               ELSE UNCHANGED <<connection, fetches>>
    /\ UNCHANGED <<buffer, failures>>

\* subscription.unsubscribe(): with refCount: false the source subscription
\* and the subject stay when the last subscriber leaves
pUnsubscribe ==
    /\ \E id \in subs :
         /\ subs' = subs \ {id}
         /\ IF RefCount /\ subs' = {} /\ connection = "open"
            THEN connection' = "none" /\ buffer' = <<>>
            ELSE UNCHANGED <<connection, buffer>>
    /\ UNCHANGED <<nsub, got, late, fetches, failures>>

\* http.get answers: the value goes into the buffer and to the subscribers,
\* then the source completes and so does the subject (resetOnComplete: false)
pFetched ==
    /\ connection = "open"
    /\ connection' = "completed"
    /\ buffer' = <<Fetched(fetches)>>
    /\ got' = Notify(got, subs, <<Fetched(fetches), "complete">>)
    /\ subs' = {}
    /\ UNCHANGED <<nsub, late, fetches, failures>>

\* http.get fails: resetOnError drops the connection and the subject, the
\* subscribers get the error
pFailed ==
    /\ connection = "open"
    /\ connection' = "none"
    /\ buffer' = <<>>
    /\ got' = Notify(got, subs, <<"error">>)
    /\ subs' = {}
    /\ failures' = failures + 1
    /\ UNCHANGED <<nsub, late, fetches>>

NextProvider ==
    \/ pSubscribe /\ FrameProvider
    \/ pUnsubscribe /\ FrameProvider
    \/ pFetched /\ FrameProvider
    \/ pFailed /\ FrameProvider

\* ------------------------------------------ SchemaService.getFoldersWithOrder

\* what a missing property or a missing key reads as
Undefined == [undefined |-> TRUE]

\* the names of the folders of the schema, and a name no folder has
FolderNames == {"Contact", "Address", "Business"}
OrderNames == FolderNames \cup {"Unknown"}

\* a FolderDef, as far as the ordering reads it
FolderDef(n) == [name |-> n]

\* the folder lists of a schema: the names are unique
FolderLists ==
    {l \in UNION {[1..n -> {FolderDef(n2) : n2 \in FolderNames}] : n \in 0..MaxFolders} :
        \A i, j \in 1..Len(l) : l[i] = l[j] => i = j}

\* the values of PageLayout.folderOrder
FolderOrders == UNION {[1..n -> OrderNames] : n \in 0..MaxOrder}

\* the layouts: without folderOrder, or with one
PageLayouts ==
    {[columns |-> "columns"]}
        \cup {[columns |-> "columns", folderOrder |-> o] : o \in FolderOrders}

\* the layout maps of layouts.json, as the entries of the object in key order
LayoutMaps == {<<[key |-> "default", layout |-> l]>> : l \in PageLayouts}

\* d[key] of LayoutService.get: the layout under the key, undefined without it
LookupAny(all, key) == IF all = <<>> THEN Undefined ELSE all[1].layout
Lookup(all, key) ==
    IF \E i \in 1..Len(all) : all[i].key = key
    THEN all[CHOOSE i \in 1..Len(all) : all[i].key = key].layout
    ELSE Undefined

\* arr.includes(x)
Includes(arr, x) == \E i \in 1..Len(arr) : arr[i] = x

\* folders.find(f => f.name === folderName), as the list of what to push
Find(folders, folderName) ==
    LET hits == {i \in 1..Len(folders) : folders[i].name = folderName}
    IN  IF hits = {} THEN <<>>
        ELSE <<folders[CHOOSE i \in hits : \A j \in hits : i <= j]>>

\* layout.folderOrder.forEach(folderName => ... orderedFolders.push(folder))
RECURSIVE PushOrdered(_, _)
PushOrdered(folderOrder, folders) ==
    IF folderOrder = <<>> THEN <<>>
    ELSE Find(folders, Head(folderOrder)) \o PushOrdered(Tail(folderOrder), folders)

\* folders.forEach(folder => if (!folderOrder.includes(folder.name)) push)
PushRemaining(folders, folderOrder) ==
    SelectSeq(folders, LAMBDA f : ~Includes(folderOrder, f.name))

\* layout?.folderOrder && layout.folderOrder.length > 0
HasFolderOrder(layout) ==
    /\ layout # Undefined
    /\ "folderOrder" \in DOMAIN layout
    /\ Len(layout.folderOrder) > 0

\* the map() of getFoldersWithOrder, for one schema folder list and layout
OrderedFolders(folders, layout) ==
    IF HasFolderOrder(layout)
    THEN PushOrdered(layout.folderOrder, folders)
            \o PushRemaining(folders, layout.folderOrder)
    ELSE folders

\* getFoldersWithOrder(layoutKey) emits for the schema and the layout map
getFoldersWithOrder ==
    \E layoutKey \in {"default", "compact"}, layouts \in LayoutMaps,
       folders \in FolderLists :
        ordered' = [called |-> TRUE, layoutKey |-> layoutKey,
                    layouts |-> layouts, folders |-> folders,
                    out |-> OrderedFolders(folders, Lookup(layouts, layoutKey))]

NextOrder == getFoldersWithOrder /\ FrameOrder

\* ----------------------------------------- FolderCardComponent.filteredFields

\* strings are the sequences of their characters
Chars == {"a", "A", "b", " "}
Str(n) == UNION {[1..k -> Chars] : k \in 0..n}

\* String.prototype.toLowerCase
LowerChar(c) == CASE c = "A" -> "a" [] c = "B" -> "b" [] OTHER -> c
toLowerCase(s) == [i \in 1..Len(s) |-> LowerChar(s[i])]

\* String.prototype.trim: the white space of both ends removed
RECURSIVE trimStart(_)
trimStart(s) ==
    IF s # <<>> /\ Head(s) = " " THEN trimStart(Tail(s)) ELSE s
RECURSIVE trimEnd(_)
trimEnd(s) ==
    IF s # <<>> /\ s[Len(s)] = " " THEN trimEnd(SubSeq(s, 1, Len(s) - 1)) ELSE s
trimNone(s) == s
trim(s) == trimEnd(trimStart(s))

\* String.prototype.includes
StrIncludes(s, sub) ==
    \E i \in 1..(Len(s) - Len(sub) + 1) : SubSeq(s, i, i + Len(sub) - 1) = sub

\* the fields of the schema (FieldDef: key, label)
FieldPool ==
    {[key |-> <<"a", "b">>, label |-> <<"A", " ", "b">>],
     [key |-> <<"b">>, label |-> <<"B", "a">>],
     [key |-> <<"b", "b">>, label |-> <<"b", " ", " ", "B">>]}

\* the field lists of a folder: the keys are unique
FieldLists ==
    {l \in UNION {[1..n -> FieldPool] : n \in 0..MaxFields} :
        \A i, j \in 1..Len(l) : l[i].key = l[j].key => i = j}

\* this.folder?.fields ?? []
FieldsOf(fd) == IF fd = Undefined THEN <<>> ELSE fd.fields

\* filteredFields(), read from the inputs of the card
filteredFields ==
    LET f == toLowerCase(trim(filter))
    IN  IF f = <<>> THEN FieldsOf(folder)
        ELSE SelectSeq(FieldsOf(folder),
                LAMBDA fl : \/ StrIncludes(toLowerCase(fl.label), f)
                            \/ StrIncludes(toLowerCase(fl.key), f))

\* the parent binds [filter]
setFilter == \E s \in Str(MaxFilter) : filter' = s /\ UNCHANGED folder

\* the parent binds [folder]
setFolder ==
    \E l \in FieldLists :
        /\ folder' = [name |-> "Contact", fields |-> l]
        /\ UNCHANGED filter

NextFilter ==
    \/ setFilter /\ FrameFilter
    \/ setFolder /\ FrameFilter

\* ------------------------------------------------------------ FieldRowComponent

\* the options of a multi-select field
Options == {"x", "y"}

\* value: any.  undefined, a string, or an array of options
UndefinedValue == [kind |-> "undefined", items |-> <<>>]
StringValue == [kind |-> "string", items |-> <<"a">>]
ArrayValue(l) == [kind |-> "array", items |-> l]
Values ==
    {UndefinedValue, StringValue}
        \cup {ArrayValue(l) : l \in UNION {[1..n -> Options] : n \in 0..MaxSelected}}

\* no event: what a handler that does not emit leaves in the history
NoEvent == [kind |-> "none", items |-> <<>>]

\* Array.isArray(v) ? v : []
asArray(v) == IF v.kind = "array" THEN v.items ELSE <<>>

\* the record of a handler of the row: the value and the edit mode it found,
\* its arguments and the event it emitted
RowOp(name, option, checked, emitted) ==
    [op |-> name, before |-> fieldValue, editing |-> isFieldEditing,
     option |-> option, checked |-> checked, emitted |-> emitted]

\* what the history keeps of a handler when the next one has run: the option
\* and the value it found, if it was onMultiSelectChange(option, true)
PrevOf(r) ==
    IF r.op = "onMultiSelectChange" /\ r.checked
    THEN [add |-> TRUE, option |-> r.option, before |-> r.before]
    ELSE [add |-> FALSE, option |-> "", before |-> UndefinedValue]

\* this.valueChange.emit(newValue): the parent writes newValue to its record
\* and binds it back as [value]
Emit(name, option, checked, newValue) ==
    /\ fieldValue' = newValue
    /\ rowLast' = RowOp(name, option, checked, newValue)
    /\ rowPrev' = PrevOf(rowLast)

startFieldEdit ==
    /\ isFieldEditing' = TRUE
    /\ originalValue' = fieldValue
    /\ startValue' = fieldValue
    /\ rowLast' = RowOp("startFieldEdit", "", FALSE, NoEvent)
    /\ rowPrev' = PrevOf(rowLast)
    /\ UNCHANGED fieldValue

saveFieldEdit ==
    /\ isFieldEditing' = FALSE
    /\ originalValue' = UndefinedValue
    /\ rowLast' = RowOp("saveFieldEdit", "", FALSE, NoEvent)
    /\ rowPrev' = PrevOf(rowLast)
    /\ UNCHANGED <<fieldValue, startValue>>

cancelFieldEditKeep ==
    /\ isFieldEditing' = FALSE
    /\ Emit("cancelFieldEdit", "", FALSE, fieldValue)
    /\ originalValue' = UndefinedValue
    /\ UNCHANGED startValue
cancelFieldEdit ==
    /\ isFieldEditing' = FALSE
    /\ Emit("cancelFieldEdit", "", FALSE, originalValue)
    /\ originalValue' = UndefinedValue
    /\ UNCHANGED startValue

onValueChange ==
    /\ \E newValue \in Values : Emit("onValueChange", "", FALSE, newValue)
    /\ UNCHANGED <<isFieldEditing, originalValue, startValue>>

\* [...currentValues, option]
AppendOption(currentValues, option) == Append(currentValues, option)

\* currentValues.filter(v => v !== option)
FilterNothing(currentValues, option) == currentValues
FilterOption(currentValues, option) ==
    SelectSeq(currentValues, LAMBDA v : v # option)

onMultiSelectChange ==
    /\ \E option \in Options, checked \in BOOLEAN :
         LET currentValues == asArray(fieldValue)
             newValues == IF checked THEN AppendOption(currentValues, option)
                          ELSE FilterOption(currentValues, option)
         IN  /\ Len(newValues) <= MaxSelected
             /\ Emit("onMultiSelectChange", option, checked, ArrayValue(newValues))
    /\ UNCHANGED <<isFieldEditing, originalValue, startValue>>

\* the parent binds another [value]: the view moved to another contact
bindValue ==
    /\ \E v \in Values : fieldValue' = v
    /\ rowLast' = RowOp("bindValue", "", FALSE, NoEvent)
    /\ rowPrev' = PrevOf(rowLast)
    /\ UNCHANGED <<isFieldEditing, originalValue, startValue>>

NextRow ==
    \/ startFieldEdit /\ FrameRow
    \/ saveFieldEdit /\ FrameRow
    \/ cancelFieldEdit /\ FrameRow
    \/ onValueChange /\ FrameRow
    \/ onMultiSelectChange /\ FrameRow
    \/ bindValue /\ FrameRow

\* ----------------------------------------------------------- mockApiInterceptor
\* The interceptor alone, one request at a time, over all its endpoints; the
\* load of an endpoint's file is an outcome of the environment.

MockMethods == {"GET", "POST", "PUT", "DELETE"}
MockUrls ==
    {<<"api", "layouts">>, <<"api", "schema">>, <<"api", "contacts">>,
     <<"api", "conversations">>, <<"api", "notes">>, <<"api", "tasks">>,
     <<"api", "unknown">>, <<"api", "contacts", "1">>, <<"api">>,
     <<"API", "contacts">>, <<".", "assets", "contactData.json">>}
MockBodies == {"", "draft"}

NoRequest == Request("", <<>>, "", "")
Mock(stage, req, passed, resp) ==
    [stage |-> stage, req |-> req, passed |-> passed, resp |-> resp]

\* mockApiInterceptor(req, next), up to its first wait
mockRequest ==
    /\ mock.stage \in {"idle", "next", "done", "error"}
    /\ \E method \in MockMethods, url \in MockUrls, q \in Queries,
          body \in MockBodies :
         LET req == Request(method, url, q, body) IN
         mock' = IF ~IsApi(url)
                 THEN Mock("next", req, req, NoResponse)
                 ELSE IF method = "GET" /\ HasAsset(url)
                 THEN Mock("asset", req, NoRequest, NoResponse)
                 ELSE Mock("lag", req, NoRequest, MockAnswer(req))

\* http.get(asset) delivers the file: map(data => new HttpResponse(200, data))
mockAssetLoaded ==
    /\ mock.stage = "asset"
    /\ mock' = Mock("lag", mock.req, NoRequest,
                    HttpResponse(200, FileData(AssetOf(mock.req.url))))

\* http.get(asset) fails: the error passes map and delay, no response follows
mockAssetFailed ==
    /\ mock.stage = "asset"
    /\ mock' = Mock("error", mock.req, NoRequest, NoResponse)

\* delay(LAG) elapses: the response reaches the caller
mockLagElapsed ==
    /\ mock.stage = "lag"
    /\ mock' = Mock("done", mock.req, NoRequest, mock.resp)

NextMock ==
    \/ mockRequest /\ FrameMock
    \/ mockAssetLoaded /\ FrameMock
    \/ mockAssetFailed /\ FrameMock
    \/ mockLagElapsed /\ FrameMock

\* ------------------------------------------------- AppComponent layout switcher
\* layout$ and layoutKeys$ are subscribed by the template from the start.

\* the keys of layouts.json, and a key it never holds
LayoutKeySet == {"default", "alt", "opt3", "custom"}
SwitchKeys == LayoutKeySet \cup {"missing"}

\* Record<string, PageLayout>: the entries of the object in key order
SwitcherMaps ==
    {[i \in 1..Len(ks) |-> [key |-> ks[i], layout |-> [columns |-> ks[i]]]] :
        ks \in {l \in UNION {[1..n -> LayoutKeySet] : n \in 0..MaxLayouts} :
                  \A i, j \in 1..Len(l) : l[i] = l[j] => i = j}}

\* Object.keys(layouts)
Keys(all) == [i \in 1..Len(all) |-> all[i].key]

\* what layout$ emits: map(([all, key]) => all[key])
LayoutEmission(all, key) == [emitted |-> TRUE, layout |-> Lookup(all, key)]

\* onKeyChange(next)
onKeyChangeNoPush ==
    \E nextKey \in SwitchKeys :
        /\ activeKey' = nextKey
        /\ lastKey' = [changed |-> TRUE, key |-> nextKey]
        /\ UNCHANGED <<activeKeySubject, layoutEmitted, layoutCache,
                       layoutKeysEmitted>>
onKeyChange ==
    \E nextKey \in SwitchKeys :
        /\ activeKey' = nextKey
        /\ activeKeySubject' = nextKey
        /\ layoutEmitted' = IF layoutCache.status = "loaded"
                            THEN LayoutEmission(layoutCache.all, nextKey)
                            ELSE layoutEmitted
        /\ lastKey' = [changed |-> TRUE, key |-> nextKey]
        /\ UNCHANGED <<layoutCache, layoutKeysEmitted>>

\* GET /api/layouts delivers the map: cache$ emits to layoutKeys$ and to the
\* combineLatest of layout$, which has the key of activeKey$ already
layoutsLoaded ==
    /\ layoutCache.status = "pending"
    /\ \E all \in SwitcherMaps :
         /\ layoutCache' = [status |-> "loaded", all |-> all]
         /\ layoutKeysEmitted' = [emitted |-> TRUE, keys |-> Keys(all)]
         /\ layoutEmitted' = LayoutEmission(all, activeKeySubject)
    /\ UNCHANGED <<activeKey, activeKeySubject, lastKey>>

\* GET /api/layouts fails: both streams error, neither has emitted or will
layoutsFailed ==
    /\ layoutCache.status = "pending"
    /\ layoutCache' = [status |-> "failed", all |-> <<>>]
    /\ UNCHANGED <<activeKey, activeKeySubject, layoutEmitted,
                   layoutKeysEmitted, lastKey>>

NextSwitcher ==
    \/ onKeyChange /\ FrameSwitcher
    \/ layoutsLoaded /\ FrameSwitcher
    \/ layoutsFailed /\ FrameSwitcher

\* -------------------------------------------------------------- activity panels
\* ActivitiesService's streams deliver arrays of objects; the ReplaySubject of
\* shareReplay holds the array it was given and the async pipe hands the same
\* array to the panel as [items]: buffer and panel share the objects.

ActivityKinds == {"conversations", "notes", "tasks"}

\* the records of conversations.json, notes.json and tasks.json
Conversation(i) == [author |-> "Ann", time |-> i, text |-> "hello"]
Note(i) == [title |-> "Call", time |-> i, body |-> "note"]
Task(i, done) == [text |-> "Send", due |-> i, done |-> done]

\* the lists a provider delivers
RecordLists(kind) ==
    CASE kind = "conversations" ->
            {[i \in 1..n |-> Conversation(i)] : n \in 0..MaxRecords}
      [] kind = "notes" ->
            {[i \in 1..n |-> Note(i)] : n \in 0..MaxRecords}
      [] kind = "tasks" ->
            UNION {{[i \in 1..n |-> Task(i, d[i])] : d \in [1..n -> BOOLEAN]} :
                        n \in 0..MaxRecords}

PanelOp(name, kind, result) == [op |-> name, kind |-> kind, result |-> result]

\* http.get(...) of a provider stream delivers its array
activityLoaded ==
    \E kind \in ActivityKinds :
        /\ ~activityBuffer[kind].loaded
        /\ \E l \in RecordLists(kind) :
             /\ activityHeap' = activityHeap \o l
             /\ delivered' = delivered \o l
             /\ activityBuffer' =
                    [activityBuffer EXCEPT ![kind] =
                        [loaded |-> TRUE,
                         list |-> [i \in 1..Len(l) |-> Len(activityHeap) + i]]]
        /\ lastPanel' = PanelOp("loaded", kind, 0)

\* TasksComponent.toggleTask(task): task.done = !task.done
toggleTask ==
    \E k \in 1..Len(activityBuffer["tasks"].list) :
        LET task == activityBuffer["tasks"].list[k] IN
        /\ activityHeap' = [activityHeap EXCEPT ![task].done = ~@]
        /\ lastPanel' = PanelOp("toggleTask", "tasks", k)
        /\ UNCHANGED <<activityBuffer, delivered>>

\* track(i, v) of the three panels: return i
track ==
    \E kind \in ActivityKinds :
        \E i \in 1..Len(activityBuffer[kind].list) :
            /\ lastPanel' = PanelOp("track", kind, i - 1)
            /\ UNCHANGED <<activityHeap, activityBuffer, delivered>>

NextActivities ==
    \/ activityLoaded /\ FrameActivities
    \/ toggleTask /\ FrameActivities
    \/ track /\ FrameActivities

\* ---------------------------------------------------- FieldRowComponent.isEmpty

\* FieldType
FieldTypes == {"string", "string-multiline", "phone", "email", "radio",
               "multi-select"}

\* v: any, as the kind of the value and what it holds
JsUndefined == [kind |-> "undefined"]
JsNull == [kind |-> "null"]
JsObject == [kind |-> "object"]
JsString(s) == [kind |-> "string", chars |-> s]
JsNumber(n) == [kind |-> "number", n |-> n]
JsBoolean(b) == [kind |-> "boolean", b |-> b]
JsArray(l) == [kind |-> "array", items |-> l]
JsValues ==
    {JsUndefined, JsNull, JsObject}
        \cup {JsString(s) : s \in Str(1)}
        \cup {JsNumber(n) : n \in 0..1}
        \cup {JsBoolean(b) : b \in BOOLEAN}
        \cup {JsArray(l) : l \in UNION {[1..n -> Options] : n \in 0..MaxSelected}}

\* isEmpty(v)
isEmptyFalsy(v) ==
    \/ v.kind \in {"undefined", "null"}
    \/ v.kind = "string" /\ v.chars = <<>>
    \/ v.kind = "number" /\ v.n = 0
    \/ v.kind = "boolean" /\ ~v.b
    \/ v.kind = "array" /\ Len(v.items) = 0
isEmpty(v) ==
    \/ v.kind = "undefined"
    \/ v.kind = "null"
    \/ v.kind = "string" /\ v.chars = <<>>
    \/ v.kind = "array" /\ ~(Len(v.items) # 0)

\* the template of a row of a field of some type evaluates isEmpty(value)
isEmptyCall ==
    \E type \in FieldTypes, v \in JsValues :
        emptyCall' = [called |-> TRUE, type |-> type, v |-> v,
                      result |-> isEmpty(v)]

NextEmpty == isEmptyCall /\ FrameEmpty

\* ------------------------------------------------------------ specification

\* the contact store, the contact detail view and the add flow
Next ==
    \/ initLoaded /\ FrameContacts
    \/ initFailed /\ FrameContacts
    \/ addResolved /\ FrameContacts
    \/ addRejected /\ FrameContacts
    \/ prev /\ FrameContacts
    \/ next /\ FrameContacts
    \/ add /\ FrameContacts
    \/ save /\ FrameContacts
    \/ saveTimeout /\ FrameContacts
    \/ cancel /\ FrameContacts
    \/ onFieldValueChange /\ FrameContacts

vars == <<contactVars, httpVars, providerVars, viewVars>>

Spec == Init /\ [][Next]_vars

\* the folder card alone: its open/closed state next to its add flow.  open
\* and defaultOpen are read by no handler of Next, which leaves toggleOpen and
\* ngOnChanges to this specification.
NextFolder ==
    \/ ngOnChanges /\ FrameContacts
    \/ toggleOpen /\ FrameContacts
    \/ add /\ FrameContacts
    \/ save /\ FrameContacts
    \/ saveTimeout /\ FrameContacts
    \/ cancel /\ FrameContacts
    \/ onFieldValueChange /\ FrameContacts

SpecFolder == Init /\ [][NextFolder]_vars

\* the interceptor chain under the requests of the application
SpecHttp == Init /\ [][NextHttp]_vars

\* one provider stream under subscribes, unsubscribes and the fetch's outcome
SpecProvider == Init /\ [][NextProvider]_vars

\* the folder order of the folder cards under the layouts and schemas
SpecOrder == Init /\ [][NextOrder]_vars

\* the field filter of a folder card under its inputs
SpecFilter == Init /\ [][NextFilter]_vars

\* a field row under its handlers and the values its parent binds
SpecRow == Init /\ [][NextRow]_vars

\* mockApiInterceptor under the requests of every method and path
SpecMock == Init /\ [][NextMock]_vars

\* the layout switcher under key changes and the arrival of the layout map
SpecSwitcher == Init /\ [][NextSwitcher]_vars

\* the activity panels over the records of the activity providers
SpecActivities == Init /\ [][NextActivities]_vars

\* isEmpty of a field row over the field types and the values of a field
SpecEmpty == Init /\ [][NextEmpty]_vars

\* ------------------------------------------------------------------ claims

BodyOf(i) == calls[i].body
StoredList == OrEmpty(state)
Occurrences(l, c) == Cardinality({k \in 1..Len(l) : l[k] = c})

\* C1: once the contact list is loaded with length N >= 1, idx stays within
\* 0..N-1 whatever prev(), next() and list updates happen; a list update that
\* finds idx past the end leaves idx = max(0, N-1).
C1_IndexInRange ==
    /\ (~state.isNull /\ Len(state.list) >= 1)
          => (idx >= 0 /\ idx <= Len(state.list) - 1)
    /\ (last.op \in {"initLoaded", "addResolved"}
          /\ last.idx > Len(StoredList) - 1)
          => idx = Max(0, Len(StoredList) - 1)

\* a list update found idx past the end of a non-empty list and clamped it
C1_Witness ==
    /\ last.op = "initLoaded"
    /\ Len(StoredList) >= 1
    /\ last.idx > Len(StoredList) - 1
    /\ idx = Len(StoredList) - 1

C3_AddAppends ==
    [][ last'.op = "addResolved" =>
          /\ \E i \in 1..Len(calls) :
                /\ calls[i].status = "pending"
                /\ calls'[i].status = "resolved"
                /\ last'.body = calls[i].body
          /\ ~state'.isNull
          /\ state'.list = Append(StoredList, last'.body)
          /\ Len(state'.list) = Len(StoredList) + 1
          /\ heap'[last'.body] = heap[last'.body]
          /\ emits' = emits + 1
          /\ received' = state' ]_vars

\* an add succeeded on a non-empty list
C3_Witness ==
    /\ last.op = "addResolved"
    /\ Len(StoredList) >= 2
    /\ StoredList[Len(StoredList)] = last.body
    /\ received = state

C5_AppendOnly ==
    \A i \in 1..Len(calls) :
        calls[i].status = "resolved" => BodyOf(i) \in Range(StoredList)

\* C6: after save() in add mode, once the store holds the new contact (and the
\* timer of save() has run), the detail view's idx is the new last index and
\* its current contact is the appended record.
C6_IndexMovesToAdded ==
    (last.op = "addResolved" /\ timers = 0)
        => /\ idx = Len(StoredList) - 1
           /\ current = last.body

\* C7: when the add of a draft submitted by save() is rejected, the add flow
\* is still in add mode and still holds that draft.
C7_RejectKeepsAddMode ==
    last.op = "addRejected"
        => /\ isAdding
           /\ newContactData = heap[last.body]

C9_OnlySuccessCached ==
    \A k \in DOMAIN CACHE : CACHE[k].status >= 200 /\ CACHE[k].status <= 299

\* C10 (as claimed): each provider stream dispatches its fetch exactly once
\* per process lifetime for any number and ordering of subscribes and
\* unsubscribes.
C10_FetchedExactlyOnce ==
    nsub >= 1 => fetches = 1

\* C10 (amended): a provider stream dispatches a fetch at the first
\* subscription and again only at a subscription that follows a failed fetch:
\* never while a fetch is in flight and never after one succeeded, whatever
\* the subscribes and unsubscribes.  The value of the successful fetch is kept
\* when the subscriber count drops to zero, and a subscriber that arrives once
\* the value is available gets it first, with no new fetch.
C10_FetchedOncePerSuccess ==
    /\ fetches <= failures + 1
    /\ nsub >= 1 => fetches >= 1
    /\ (connection = "none") <=> (fetches = failures)
    /\ connection = "completed" => buffer = <<Fetched(fetches)>>
    /\ \A id \in late :
          /\ connection = "completed"
          /\ got[id] = <<buffer[1], "complete">>

\* every subscriber left before the fetch answered, the fetch had failed once
\* before, and a subscriber that arrived afterwards got the value
C10_Witness ==
    /\ connection = "completed"
    /\ failures = 1
    /\ fetches = 2
    /\ \E id \in 1..nsub : id \notin late /\ got[id] = <<>>
    /\ \E id \in late : got[id] = <<Fetched(2), "complete">>

\* the layout the last emission of getFoldersWithOrder resolved, read off the
\* entries of the map
OrderedLayoutPresent == \E i \in 1..Len(ordered.layouts) :
                            ordered.layouts[i].key = ordered.layoutKey
OrderedLayout ==
    ordered.layouts[CHOOSE i \in 1..Len(ordered.layouts) :
                        ordered.layouts[i].key = ordered.layoutKey].layout
OrderedCustom ==
    /\ ordered.called
    /\ OrderedLayoutPresent
    /\ "folderOrder" \in DOMAIN OrderedLayout
    /\ OrderedLayout.folderOrder # <<>>
FirstPos(l, x) == CHOOSE i \in 1..Len(l) : l[i] = x /\ \A j \in 1..(i - 1) : l[j] # x
PosIn(l, x) == CHOOSE i \in 1..Len(l) : l[i] = x

\* C11: for a layout key present in the layout map with a non-empty
\* folderOrder, the output of getFoldersWithOrder is a permutation of the
\* schema's folder list (every folder exactly once), the folders named in
\* folderOrder first and in folderOrder sequence, the others after them in
\* their original relative order; names of folderOrder that match no folder
\* are skipped.
C11_OrderIsPermutation ==
    OrderedCustom =>
        LET out == ordered.out
            folders == ordered.folders
            order == OrderedLayout.folderOrder
            Named(f) == \E k \in 1..Len(order) : order[k] = f.name
        IN  /\ Len(out) = Len(folders)
            /\ \A k \in 1..Len(folders) : Occurrences(out, folders[k]) = 1
            /\ \A i, j \in 1..Len(out) : i < j =>
                /\ Named(out[i]) \/ ~Named(out[j])
                /\ (Named(out[i]) /\ Named(out[j])) =>
                      FirstPos(order, out[i].name) < FirstPos(order, out[j].name)
                /\ (~Named(out[i]) /\ ~Named(out[j])
                        /\ Occurrences(folders, out[i]) = 1
                        /\ Occurrences(folders, out[j]) = 1) =>
                      PosIn(folders, out[i]) < PosIn(folders, out[j])

\* C12: getFoldersWithOrder returns the schema's folder list unchanged (same
\* elements, same order) when the layout has no folderOrder, when its
\* folderOrder is empty, and when the layout key is not in the layout map.
C12_DefaultOrder ==
    (ordered.called /\ ~OrderedCustom) => ordered.out = ordered.folders

\* a key the map does not hold, next to a layout whose folderOrder would have
\* moved the last folder to the front
C12_Witness ==
    /\ ordered.called
    /\ ~OrderedLayoutPresent
    /\ Len(ordered.folders) >= 2
    /\ \E i \in 1..Len(ordered.layouts) :
          /\ "folderOrder" \in DOMAIN ordered.layouts[i].layout
          /\ ordered.layouts[i].layout.folderOrder
                = <<ordered.folders[Len(ordered.folders)].name>>
    /\ ordered.out = ordered.folders

\* the same letter, whatever its case
SameLetter(c, d) == c = d \/ {c, d} \in {{"a", "A"}, {"b", "B"}}
\* s holds sub as a substring, case ignored
HoldsIgnoringCase(s, sub) ==
    \E i \in 0..(Len(s) - Len(sub)) :
        \A k \in 1..Len(sub) : SameLetter(s[i + k], sub[k])
\* the filter between its first and its last character that is not a space
FilterInk == {i \in 1..Len(filter) : filter[i] # " "}
FilterTrimmed ==
    IF FilterInk = {} THEN <<>>
    ELSE LET a == CHOOSE i \in FilterInk : \A j \in FilterInk : i <= j
             b == CHOOSE i \in FilterInk : \A j \in FilterInk : i >= j
         IN  [k \in 1..(b - a + 1) |-> filter[a + k - 1]]

\* C13: filteredFields() is an order-preserving subsequence of the folder's
\* fields holding exactly the fields whose label or key contains the trimmed
\* filter as a case-insensitive substring; for an empty or all-whitespace
\* filter it is the field list unchanged.
C13_FilteredFields ==
    LET fields == IF "fields" \in DOMAIN folder THEN folder.fields ELSE <<>>
        Matches(fl) == \/ HoldsIgnoringCase(fl.label, FilterTrimmed)
                       \/ HoldsIgnoringCase(fl.key, FilterTrimmed)
    IN  /\ FilterInk = {} => filteredFields = fields
        /\ FilterInk # {} => filteredFields = SelectSeq(fields, Matches)

\* a filter with a space to trim and a capital to fold keeps one field of two
C13_Witness ==
    /\ filter = <<" ", "A">>
    /\ "fields" \in DOMAIN folder
    /\ Len(folder.fields) = 2
    /\ Len(filteredFields) = 1

\* the list a value is treated as: a value that is no list counts as empty
ListOf(v) == IF v.kind = "array" THEN v.items ELSE <<>>

\* C14: onMultiSelectChange(option, included) emits a list computed from the
\* current value treated as a list: with included = true the option is added
\* only if it is not already present (no occurrence beyond one newly added on
\* top of none), with included = false every occurrence of the option is
\* removed and the other entries keep their order.
C14_MultiSelectChange ==
    rowLast.op = "onMultiSelectChange" =>
        LET cur == ListOf(rowLast.before)
            o == rowLast.option
            out == rowLast.emitted.items
        IN  /\ rowLast.emitted.kind = "array"
            /\ rowLast.checked =>
                  /\ Occurrences(cur, o) > 0 => out = cur
                  /\ Occurrences(cur, o) = 0 => out = Append(cur, o)
            /\ ~rowLast.checked =>
                  /\ Occurrences(out, o) = 0
                  /\ out = SelectSeq(cur, LAMBDA v : v # o)

C16_CancelRestores ==
    (rowLast.op = "cancelFieldEdit" /\ rowLast.editing) =>
        /\ rowLast.emitted = startValue
        /\ fieldValue = startValue
        /\ ~isFieldEditing
        /\ originalValue = UndefinedValue

\* an edit that changed the value of the field was cancelled
C16_Witness ==
    /\ rowLast.op = "cancelFieldEdit" /\ rowLast.editing
    /\ rowLast.before # startValue
    /\ startValue.kind = "array" /\ Len(startValue.items) >= 1
    /\ fieldValue = startValue

\* C17: while the add flow is active (isAdding) toggleOpen leaves the
\* open/closed state of the folder card as it is, however often it is called;
\* while the add flow is not active each toggleOpen flips it, once.
C17_ToggleOnlyOutsideAdd ==
    [][last'.op = "toggleOpen" =>
          /\ isAdding => open' = open
          /\ ~isAdding => open' = ~open
          /\ isAdding' = isAdding]_vars

\* a toggle event came while the add flow had the card open
C17_Witness == last.op = "toggleOpen" /\ isAdding /\ open

\* a record with one field written and the others as they were
WrittenOnce(before, after) ==
    \E k \in FieldKeys, v \in FieldValues :
        /\ DOMAIN after = (DOMAIN before) \cup {k}
        /\ after[k] = v
        /\ \A f \in (DOMAIN before) \ {k} : after[f] = before[f]

\* C18: onFieldValueChange(fieldKey, newValue) writes only into the draft
\* while the add flow is active (no record of the store changes) and only into
\* the live contact record otherwise (the draft does not change); in both
\* cases it sends no add request and the list in the store is not replaced.
C18_FieldChangeWrites ==
    [][last'.op = "onFieldValueChange" =>
          /\ calls' = calls
          /\ state' = state /\ emits' = emits /\ received' = received
          /\ isAdding' = isAdding
          /\ Len(heap') = Len(heap)
          /\ isAdding =>
                /\ heap' = heap
                /\ WrittenOnce(newContactData, newContactData')
          /\ ~isAdding =>
                /\ newContactData' = newContactData
                /\ \A i \in 1..Len(heap) : i # current => heap'[i] = heap[i]
                /\ current # Null => WrittenOnce(heap[current], heap'[current])]_vars

\* a field of the live record of a loaded store was written outside the add flow
C18_Witness ==
    /\ last.op = "onFieldValueChange"
    /\ ~isAdding
    /\ ~state.isNull
    /\ current # Null
    /\ heap[current].firstName = "Ada"
    /\ newContactData = EmptyObj

\* the endpoints of the mock API and the data each one serves
EndpointData ==
    [layouts |-> "layouts.json", schema |-> "contactField.json",
     contacts |-> "contactData.json", conversations |-> "conversations.json",
     notes |-> "notes.json", tasks |-> "tasks.json"]
UnderApi(url) == Len(url) >= 2 /\ url[1] = "api"
IsEndpoint(url) == Len(url) = 2 /\ url[1] = "api" /\ url[2] \in DOMAIN EndpointData

MapKeys == {layoutCache.all[i].key : i \in 1..Len(layoutCache.all)}

\* C20: the active key of the layout switcher starts as "default"; after any
\* sequence of onKeyChange calls activeKey equals the last value pushed into
\* the key stream; once the layout map is there the resolved layout is
\* layoutMap[activeKey] for the latest key, undefined exactly when the key is
\* not in the map; the list of available keys is exactly the keys of the map.
C20_LayoutSwitcher ==
    /\ ~lastKey.changed => activeKey = "default"
    /\ lastKey.changed => activeKey = lastKey.key
    /\ activeKeySubject = activeKey
    /\ layoutCache.status = "loaded" =>
          /\ layoutEmitted.emitted
          /\ \A i \in 1..Len(layoutCache.all) :
                layoutCache.all[i].key = activeKey =>
                    layoutEmitted.layout = layoutCache.all[i].layout
          /\ (layoutEmitted.layout = [undefined |-> TRUE])
                <=> (activeKey \notin MapKeys)
          /\ layoutKeysEmitted.emitted
          /\ Len(layoutKeysEmitted.keys) = Cardinality(MapKeys)
          /\ Range(layoutKeysEmitted.keys) = MapKeys
    /\ layoutCache.status # "loaded" =>
          ~layoutEmitted.emitted /\ ~layoutKeysEmitted.emitted

\* the switcher was moved to a key that a map of two layouts does not hold
C20_Witness ==
    /\ layoutCache.status = "loaded"
    /\ Len(layoutCache.all) = 2
    /\ lastKey.changed
    /\ activeKey \notin MapKeys
    /\ layoutEmitted.emitted
    /\ layoutEmitted.layout = [undefined |-> TRUE]

\* C21: conversation, note and task records are read-only: no operation of
\* the activity panels changes a field of a record the activity providers
\* delivered, so the records the providers' cached streams hold are the same
\* in every reachable state.
C21_RecordsReadOnly ==
    \A kind \in DOMAIN activityBuffer :
        \A k \in 1..Len(activityBuffer[kind].list) :
            activityHeap[activityBuffer[kind].list[k]]
                = delivered[activityBuffer[kind].list[k]]

\* C22: for every field definition and value, isEmpty is true exactly for
\* the absent (undefined) value, null, the empty string and the empty list,
\* and false for every other value, 0, false and non-empty lists included.
C22_IsEmpty ==
    emptyCall.called =>
        (emptyCall.result <=>
            emptyCall.v \in {[kind |-> "undefined"], [kind |-> "null"],
                             [kind |-> "string", chars |-> <<>>],
                             [kind |-> "array", items |-> <<>>]})

\* isEmpty(0) was evaluated, and found not empty
C22_Witness ==
    /\ emptyCall.called
    /\ emptyCall.v = [kind |-> "number", n |-> 0]
    /\ ~emptyCall.result

\* the add() calls that resolved
Resolved == {i \in 1..Len(calls) : calls[i].status = "resolved"}

\* C23 as stated: if the initial GET /api/contacts fails the store stays in
\* the loading state: the stored list is absent (null) in every later state,
\* whatever operations follow.
C23_LoadingPersists == initStatus = "failed" => state.isNull

\* C23, amended: if the initial GET /api/contacts fails, the stored list is
\* absent (null) exactly until an add() resolves; the fetch is not repeated,
\* the store emits once per resolved add and nothing else, and the list then
\* holds the added contacts only.
C23_LoadingUntilAdd ==
    initStatus = "failed" =>
        /\ state.isNull <=> Resolved = {}
        /\ emits = Cardinality(Resolved)
        /\ Range(StoredList) = {BodyOf(i) : i \in Resolved}
        /\ state.isNull => (total = 0 /\ idx = 0 /\ current = Null)

\* the load failed, an add was tried and rejected, and the list is still absent
C23_Witness ==
    /\ initStatus = "failed"
    /\ state.isNull
    /\ \E i \in 1..Len(calls) : calls[i].status = "rejected"
    /\ last.op \in {"prev", "next", "cancel", "onFieldValueChange"}

\* C25: in the contact detail view, after every list emission and every
\* prev() and next(), total is the length of the store's latest list (0 while
\* loading) and current is that list's element at idx, null when the list is
\* absent or empty; current is never the contact of another index than idx.
C25_ViewInSync ==
    /\ total = Len(StoredList)
    /\ received = state
    /\ current = (IF idx >= 0 /\ idx < Len(StoredList)
                  THEN StoredList[idx + 1] ELSE Null)
    /\ StoredList = <<>> => current = Null
    /\ \A k \in 1..Len(StoredList) :
          (current = StoredList[k] /\ Occurrences(StoredList, current) = 1)
              => k = idx + 1

\* the view moved to the second contact of a list that an add then extended
C25_Witness ==
    /\ last.op = "addResolved"
    /\ Len(StoredList) >= 3
    /\ idx = 1
    /\ current = StoredList[2]

\* C24: in the folder card, whenever add mode is active the section is open
\* (isAdding implies open), in every state that add(), toggleOpen(), save(),
\* cancel() and changes of the defaultOpen input reach: the add form cannot
\* be collapsed while a draft is being composed.
C24_AddingImpliesOpen == isAdding => open

====
